---- MODULE Spec2Model ----
(***************************************************************************)
(* Model of the ideas_topics knowledge base: the text codec (utils.py),    *)
(* the hierarchy builder and its heading titles (data_similarity.py), the  *)
(* table-of-contents cache and its page callback (pages/writer.py), the    *)
(* record operations that write the SQLite tables and the embedding store  *)
(* (data_handler.py, chroma_client.py) and the relation callback of the    *)
(* editor page (pages/editor.py).                                          *)
(*                                                                         *)
(* Python strings are sequences of one-character strings; Python None is   *)
(* the empty option <<>> and a value v that may be None is <<v>>.          *)
(***************************************************************************)
EXTENDS Integers, Sequences, FiniteSets, TLC

VARIABLES
    codec,          \* one run of the text codec
    build,          \* one run of the hierarchy builder on a given corpus
    branch,         \* one recursive call of the builder, up to its clustering request
    collection,     \* the Chroma collection: the documents in insertion order
    cacheFile,      \* data/toc_cache.json
    toc,            \* the running update_toc callbacks
    lastDump,       \* history: the last save_toc_structure to have closed the cache file
    overlapped,     \* history: the saves now open have run beside another save
    sqlData,        \* the data table of the SQLite database: name -> description
    call,           \* the running data_handler call and its worker thread
    title,          \* one call of generate_synthetic_title
    tags,           \* the tags table of the SQLite database: the set of names
    relation,       \* the relation table: the set of <<data_name, tag_name>> rows
    foreign_keys,   \* whether SQLite connections enforce FOREIGN KEY clauses
    ui              \* the running callback_relation of the editor page

pureVars == <<codec, build, branch, title>>
cacheVars == <<cacheFile, toc, lastDump, overlapped>>
editVars == <<tags, relation, foreign_keys, ui>>
dataVars == <<sqlData, call, editVars>>
vars == <<codec, build, branch, title, collection, cacheFile, toc, lastDump, overlapped, sqlData, call, tags, relation,
         foreign_keys, ui>>

(***************************************************************************)
(* Bounds                                                                  *)
(***************************************************************************)
MaxNameLen == 1
MaxDescLen == 5
MaxCorpus == 4
MaxDepthArg == 2
MaxItemCount == 8
MaxDocs == 2
MaxItems == 1
MaxNames == 2
BufCells == 2

None == <<>>
Some(v) == <<v>>

\* the value of a component in a specification that does not exercise it
CodecIdle == [name |-> <<>>, description |-> <<>>, encoded |-> None, decoded |-> None, pc |-> "off"]
BuildIdle == [pc |-> "off"]
BranchIdle == [pc |-> "off"]
CallOff == [pc |-> "off"]
NoFile == [exists |-> FALSE, cells |-> <<>>]

(***************************************************************************)
(* Strings                                                                 *)
(***************************************************************************)
Alphabet == {"a", ".", " ", ":"}

RECURSIVE StringsUpTo(_)
StringsUpTo(n) ==
    IF n = 0 THEN {<<>>}
    ELSE LET shorter == StringsUpTo(n - 1)
         IN shorter \cup {Append(s, ch) : s \in {t \in shorter : Len(t) = n - 1}, ch \in Alphabet}

\* s[i..] of Python, 1-based
Drop(s, n) == SubSeq(s, n + 1, Len(s))

StartsWith(s, pat) == Len(pat) <= Len(s) /\ SubSeq(s, 1, Len(pat)) = pat

\* pat in s of Python
Contains(s, pat) == \E i \in 0..(Len(s) - Len(pat)) : StartsWith(Drop(s, i), pat)

\* str.replace(old, "") of Python for a non-empty old: every non-overlapping
\* occurrence, found left to right, is removed
RECURSIVE StrRemoveAll(_, _)
StrRemoveAll(s, old) ==
    IF Len(s) < Len(old) THEN s
    ELSE IF StartsWith(s, old) THEN StrRemoveAll(Drop(s, Len(old)), old)
    ELSE <<Head(s)>> \o StrRemoveAll(Tail(s), old)

(***************************************************************************)
(* Text codec: utils.py                                                    *)
(***************************************************************************)
\* f"{name}. {name}:"
prefix_pattern(name) == name \o <<".", " ">> \o name \o <<":">>

\* f"{name}. {name}: {description}"
format_text(name, description) == prefix_pattern(name) \o <<" ">> \o description

unformat_text(name, description) == StrRemoveAll(description, prefix_pattern(name))

CodecInit ==
    codec \in [name : StringsUpTo(MaxNameLen) \ {<<>>}, description : StringsUpTo(MaxDescLen),
               encoded : {None}, decoded : {None}, pc : {"input"}]

CodecFormat ==
    /\ codec.pc = "input"
    /\ codec' = [codec EXCEPT !.encoded = Some(format_text(codec.name, codec.description)),
                              !.pc = "encoded"]
    /\ UNCHANGED <<build, branch, title, collection, cacheVars, dataVars>>

CodecUnformat ==
    /\ codec.pc = "encoded"
    /\ codec' = [codec EXCEPT !.decoded = Some(unformat_text(codec.name, codec.encoded[1])),
                              !.pc = "decoded"]
    /\ UNCHANGED <<build, branch, title, collection, cacheVars, dataVars>>

(***************************************************************************)
(* Embeddings.  A vector is a pair of integers with an integer norm, so    *)
(* that every cosine similarity is a multiple of 1/25 and every cosine     *)
(* distance is held exactly as an integer number of 25ths.                 *)
(***************************************************************************)
Vecs == {<<1, 0>>, <<3, 4>>, <<0, 1>>, <<-1, 0>>}

Dot(u, v) == u[1] * v[1] + u[2] * v[2]

\* np.linalg.norm
Norm(u) == CHOOSE r \in 0..5 : r * r = Dot(u, u)

\* 25 * (1 - u.v / (|u| |v|)), the cosine distance of two non-zero vectors
CosDist25(u, v) == 25 - ((25 * Dot(u, v)) \div (Norm(u) * Norm(v)))

RECURSIVE SumOver(_, _)
SumOver(S, f) ==
    IF S = {} THEN 0
    ELSE LET e == CHOOSE x \in S : TRUE IN f[e] + SumOver(S \ {e}, f)

Min(S) == CHOOSE m \in S : \A x \in S : m <= x

RECURSIVE SortedSeq(_)
SortedSeq(S) == IF S = {} THEN <<>> ELSE <<Min(S)>> \o SortedSeq(S \ {Min(S)})

\* int(np.sqrt(n))
ISqrt(n) == CHOOSE r \in 0..n : r * r <= n /\ n < (r + 1) * (r + 1)

Max2(a, b) == IF a >= b THEN a ELSE b

(***************************************************************************)
(* AgglomerativeClustering(n_clusters, metric='cosine', linkage='average') *)
(* on the rows of X: start from singletons and merge the two groups with   *)
(* the least average pairwise cosine distance until n_clusters remain.     *)
(* Equal distances are resolved towards the groups holding the lowest row. *)
(***************************************************************************)
LinkSum(X, A, B) == SumOver(A \X B, [p \in A \X B |-> CosDist25(X[p[1]], X[p[2]])])

\* average linkage of (A, B) is less than that of (C, D)
LinkLess(X, A, B, C, D) ==
    LinkSum(X, A, B) * Cardinality(C) * Cardinality(D)
        < LinkSum(X, C, D) * Cardinality(A) * Cardinality(B)

LinkEq(X, A, B, C, D) ==
    LinkSum(X, A, B) * Cardinality(C) * Cardinality(D)
        = LinkSum(X, C, D) * Cardinality(A) * Cardinality(B)

GroupPairs(groups) == {p \in groups \X groups : Min(p[1]) < Min(p[2])}

PairBefore(p, q) ==
    \/ Min(p[1]) < Min(q[1])
    \/ Min(p[1]) = Min(q[1]) /\ Min(p[2]) <= Min(q[2])

ClosestPair(X, groups) ==
    CHOOSE p \in GroupPairs(groups) :
        \A q \in GroupPairs(groups) :
            \/ LinkLess(X, p[1], p[2], q[1], q[2])
            \/ LinkEq(X, p[1], p[2], q[1], q[2]) /\ PairBefore(p, q)

RECURSIVE Agglomerate(_, _, _)
Agglomerate(X, groups, n_clusters) ==
    IF Cardinality(groups) <= n_clusters THEN groups
    ELSE LET p == ClosestPair(X, groups)
         IN Agglomerate(X, (groups \ {p[1], p[2]}) \cup {p[1] \cup p[2]}, n_clusters)

\* The groups of fit_predict in ascending label order, each the ascending
\* list of its row indices (np.where(labels == label)[0]).
RECURSIVE GroupsInOrder(_)
GroupsInOrder(groups) ==
    IF groups = {} THEN <<>>
    ELSE LET g == CHOOSE h \in groups : \A k \in groups : Min(h) <= Min(k)
         IN <<SortedSeq(g)>> \o GroupsInOrder(groups \ {g})

\* a slip on line 207: range(n_clusters + 1) instead of np.unique(labels),
\* which visits one label that no row has
fit_predict_spare_label(X, n_clusters) ==
    GroupsInOrder(Agglomerate(X, {{i} : i \in 1..Len(X)}, n_clusters)) \o <<<<>>>>

fit_predict(X, n_clusters) ==
    GroupsInOrder(Agglomerate(X, {{i} : i \in 1..Len(X)}, n_clusters))

\* a slip on line 210: the first len(indices) rows instead of the rows of the group
PickLeading(list, indices) == [k \in 1..Len(indices) |-> list[k]]

\* [list[i] for i in indices]
Pick(list, indices) == [k \in 1..Len(indices) |-> list[indices[k]]]

RECURSIVE LeafIds(_)
\* the ids of the 'idea' nodes, in document order, with repetitions
LeafIds(tree) ==
    IF tree = <<>> THEN <<>>
    ELSE LET node == Head(tree)
         IN (IF node.type = "idea" THEN <<node.id>> ELSE LeafIds(node.children))
                \o LeafIds(Tail(tree))

(***************************************************************************)
(* Originality scores.  A score is held as the whole number of 300ths in   *)
(* the float the code stores, so that 1.0 is ScoreUnit.                    *)
(***************************************************************************)
ScoreUnit == 300

\* lines 317-327: the cosine distance in 25ths, 1.0 when a vector is zero
cos_dist(u, v) == IF Norm(u) > 0 /\ Norm(v) > 0 THEN CosDist25(u, v) ELSE 25

Min2(a, b) == IF a <= b THEN a ELSE b

RemoveAt(d, i) == [j \in 1..(Len(d) - 1) |-> IF j < i THEN d[j] ELSE d[j + 1]]

RECURSIVE SmallestSum(_, _)
\* the sum of the k smallest values of d (np.argpartition(d, k)[:k])
SmallestSum(d, k) ==
    IF k <= 0 \/ d = <<>> THEN 0
    ELSE LET i == CHOOSE i \in 1..Len(d) : \A j \in 1..Len(d) : d[i] <= d[j]
         IN d[i] + SmallestSum(RemoveAt(d, i), k - 1)

\* a variant of Clamp that stores the score as computed
NoClamp(x) == x

\* max(0.0, min(1.0, originality_score))
Clamp(x) == Max2(0, Min2(ScoreUnit, x))

\* lines 339-344: 1.0 - avg_distance / (1.0 + 1e-8), with avg_distance the
\* mean of k distances whose sum is sum25 25ths
Originality(sum25, k) == Clamp((ScoreUnit * (25 * k - sum25)) \div (25 * k))

\* lines 312-327: the distances from row i to every other row
distances(X, i) ==
    LET others == SelectSeq([j \in 1..Len(X) |-> j], LAMBDA j : j # i)
    IN [m \in 1..Len(others) |-> cos_dist(X[i], X[others[m]])]

\* Embedder._calculate_originality_scores: the scores of the rows of X
_calculate_originality_scores(X) ==
    IF Len(X) <= 1 THEN [i \in 1..Len(X) |-> ScoreUnit]
    ELSE LET k == Min2(5, Len(X) - 1)
         IN [i \in 1..Len(X) |-> Originality(SmallestSum(distances(X, i), k), k)]

\* list.index
Index(list, x) == CHOOSE i \in 1..Len(list) : list[i] = x /\ \A j \in 1..(i - 1) : list[j] # x

\* np.mean(child_embeddings, axis=0) up to its length: the sum of the rows
VecSum(vs) ==
    <<SumOver(1..Len(vs), [i \in 1..Len(vs) |-> vs[i][1]]),
      SumOver(1..Len(vs), [i \in 1..Len(vs) |-> vs[i][2]])>>

\* the row v against the direction s: 5 |s| cos(s, v), a whole number for
\* the vectors of Vecs
Along5(s, v) == (5 * Dot(s, v)) \div Norm(v)

\* lines 406-443: the score of a mean vector of direction s against the
\* rows of others, none of them zero.  With a5 the sum of the k greatest
\* Along5, the mean of the k least distances is 1 - a5 / (5 k |s|).
heading_score(s, others) ==
    LET L == Len(others)
        k == IF L > 1 THEN Min2(Min2(5, L), L - 1) ELSE 1
        a5 == 0 - SmallestSum([m \in 1..L |-> 0 - Along5(s, others[m])], k)
        ss == Dot(s, s)
    IN IF ss = 0 \/ a5 <= 0 THEN Clamp(0)
       ELSE Clamp(CHOOSE r \in 0..ScoreUnit :
                /\ r * r * k * k * ss <= 3600 * a5 * a5
                /\ r < ScoreUnit => (r + 1) * (r + 1) * k * k * ss > 3600 * a5 * a5)

\* Embedder._calculate_heading_originality_score
_calculate_heading_originality_score(children, all_embeddings, all_ids) ==
    LET child_ids == LeafIds(children)
        child_embeddings == [m \in 1..Len(child_ids) |-> all_embeddings[Index(all_ids, child_ids[m])]]
        non_child_mask == SelectSeq([i \in 1..Len(all_ids) |-> i],
                                    LAMBDA i : \A m \in 1..Len(child_ids) : child_ids[m] # all_ids[i])
    IN IF Len(child_embeddings) > 0 /\ Len(all_embeddings) > 0 /\ Len(non_child_mask) > 0
       THEN heading_score(VecSum(child_embeddings), Pick(all_embeddings, non_child_mask))
       ELSE ScoreUnit

(***************************************************************************)
(* Hierarchy builder: Embedder._generate_toc_structure                     *)
(***************************************************************************)
idea_entry(doc, id) == [title |-> id, text |-> doc, type |-> "idea", id |-> id]

\* a slip on line 190: one more level of headings than max_depth allows
StopsLate(n, level, max_depth) == n <= 2 \/ level > max_depth + 1

\* a slip on line 190: a pair of items is clustered too
StopsSmall(n, level, max_depth) == n <= 1 \/ level > max_depth

\* the stopping rule: len(X) <= 2 or level > max_depth
Stops(n, level, max_depth) == n <= 2 \/ level > max_depth

\* line 197: max(2, int(np.sqrt(len(X))))
n_clusters_for(n) == Max2(2, ISqrt(n))

\* lines 188-237.  The title of a heading is what generate_synthetic_title
\* returns for the cluster; that call is modelled on its own further down,
\* and the tree carries an empty title in its place.
RECURSIVE _generate_toc_structure(_, _, _, _, _)
_generate_toc_structure(docs, ids, embeddings, level, max_depth) ==
    IF Stops(Len(embeddings), level, max_depth)
    THEN LET scores == _calculate_originality_scores(embeddings)
         IN [k \in 1..Min({Len(docs), Len(ids)}) |->
                idea_entry(docs[k], ids[k]) @@ ("originality_score" :> scores[k])]
    ELSE LET n_clusters == n_clusters_for(Len(embeddings))
             labels == fit_predict(embeddings, n_clusters)
         IN [g \in 1..Len(labels) |->
                LET children == _generate_toc_structure(Pick(docs, labels[g]),
                                                        Pick(ids, labels[g]),
                                                        Pick(embeddings, labels[g]),
                                                        level + 1, max_depth)
                IN [title |-> <<>>,
                    type |-> "heading",
                    level |-> level,
                    children |-> children,
                    originality_score |->
                        _calculate_heading_originality_score(children, embeddings, ids)]]

(***************************************************************************)
(* Walks over a returned tree                                              *)
(***************************************************************************)
RECURSIVE HeadingLevels(_)
HeadingLevels(tree) ==
    IF tree = <<>> THEN {}
    ELSE LET node == Head(tree)
         IN (IF node.type = "heading" THEN {node.level} \cup HeadingLevels(node.children) ELSE {})
                \cup HeadingLevels(Tail(tree))

RECURSIVE LeafDepths(_, _)
\* the nesting levels at which leaves sit, the top-level list being level 1
LeafDepths(tree, level) ==
    IF tree = <<>> THEN {}
    ELSE LET node == Head(tree)
         IN (IF node.type = "idea" THEN {level} ELSE LeafDepths(node.children, level + 1))
                \cup LeafDepths(Tail(tree), level)

RECURSIVE Headings(_)
\* the heading nodes of a tree, at every level
Headings(tree) ==
    IF tree = <<>> THEN {}
    ELSE LET node == Head(tree)
         IN (IF node.type = "heading" THEN {node} \cup Headings(node.children) ELSE {})
                \cup Headings(Tail(tree))

SeqToSet(s) == {s[i] : i \in 1..Len(s)}

NoRepeat(s) == \A i, j \in 1..Len(s) : s[i] = s[j] => i = j

(***************************************************************************)
(* A build over a corpus given directly: the ids are pairwise distinct.    *)
(***************************************************************************)
IdPool == <<"a", "b", "c", "d", "e", "f", "g", "h">>
NameOf(i) == <<IdPool[i]>>

BuildInit ==
    \E n \in 0..MaxCorpus :
        build \in [ids : {[k \in 1..n |-> NameOf(k)]},
                   docs : {[k \in 1..n |-> format_text(NameOf(k), <<"a">>)]},
                   embeddings : [1..n -> Vecs],
                   max_depth : 0..MaxDepthArg,
                   toc : {None},
                   pc : {"input"}]

BuildToc ==
    /\ build.pc = "input"
    /\ build' = [build EXCEPT
           !.toc = Some(_generate_toc_structure(build.docs, build.ids, build.embeddings,
                                                1, build.max_depth)),
           !.pc = "built"]
    /\ UNCHANGED <<codec, branch, title, collection, cacheVars, dataVars>>


(***************************************************************************)
(* One recursive call of the builder on n items at a given level, up to    *)
(* the number of clusters it asks AgglomerativeClustering for.             *)
(***************************************************************************)
BranchInit ==
    branch \in [n : 0..MaxItemCount,
                level : 1..(MaxDepthArg + 2),
                max_depth : 0..MaxDepthArg,
                stops : {None},
                n_clusters : {None},
                pc : {"input"}]

BranchCall ==
    /\ branch.pc = "input"
    /\ branch' = [branch EXCEPT
           !.stops = Some(Stops(branch.n, branch.level, branch.max_depth)),
           !.n_clusters = IF Stops(branch.n, branch.level, branch.max_depth) THEN None
                          ELSE Some(n_clusters_for(branch.n)),
           !.pc = "called"]
    /\ UNCHANGED <<codec, build, title, collection, cacheVars, dataVars>>
(***************************************************************************)
(* Heading titles: Embedder.generate_synthetic_title.  KeyBERT is outside  *)
(* the repository: extract_keywords either raises or returns at most top_n *)
(* distinct phrases of one or two consecutive words of the text, in rank   *)
(* order; which ones is left open.                                         *)
(***************************************************************************)
LowerCase == <<"a", "b", "x">>
UpperCase == <<"A", "B", "X">>

IsLower(ch) == \E i \in 1..Len(LowerCase) : LowerCase[i] = ch
IsUpper(ch) == \E i \in 1..Len(UpperCase) : UpperCase[i] = ch
IsCased(ch) == IsLower(ch) \/ IsUpper(ch)
IsSpace(ch) == ch = " "

ToLower(ch) == IF IsUpper(ch) THEN LowerCase[CHOOSE i \in 1..Len(UpperCase) : UpperCase[i] = ch] ELSE ch
ToUpper(ch) == IF IsLower(ch) THEN UpperCase[CHOOSE i \in 1..Len(LowerCase) : LowerCase[i] = ch] ELSE ch

\* str.lower
str_lower(s) == [i \in 1..Len(s) |-> ToLower(s[i])]

\* str.title: a cased character is upper case after an uncased one and
\* lower case after a cased one
str_title(s) ==
    [i \in 1..Len(s) |->
        IF i > 1 /\ IsCased(s[i - 1]) THEN ToLower(s[i]) ELSE ToUpper(s[i])]

\* re.sub(r'[^\w\s]', '', s)
strip_punctuation(s) == SelectSeq(s, LAMBDA ch : IsCased(ch) \/ IsSpace(ch))

\* s[:n]
Take(s, n) == SubSeq(s, 1, Min2(n, Len(s)))

RECURSIVE str_join(_, _)
\* sep.join(parts)
str_join(sep, parts) ==
    IF parts = <<>> THEN <<>>
    ELSE IF Len(parts) = 1 THEN parts[1]
    ELSE parts[1] \o sep \o str_join(sep, Tail(parts))

RECURSIVE str_split(_)
\* s.split(): the runs of characters between white space
str_split(s) ==
    IF s = <<>> THEN <<>>
    ELSE IF IsSpace(Head(s)) THEN str_split(Tail(s))
    ELSE LET n == IF \E i \in 1..Len(s) : IsSpace(s[i])
                  THEN (CHOOSE i \in 1..Len(s) :
                            IsSpace(s[i]) /\ \A j \in 1..(i - 1) : ~IsSpace(s[j])) - 1
                  ELSE Len(s)
         IN <<SubSeq(s, 1, n)>> \o str_split(Drop(s, n))

UntitledSection ==
    <<"U", "n", "t", "i", "t", "l", "e", "d", " ", "S", "e", "c", "t", "i", "o", "n">>
GeneralTopic == <<"G", "e", "n", "e", "r", "a", "l", " ", "T", "o", "p", "i", "c">>
SectionPrefix == <<"S", "e", "c", "t", "i", "o", "n", ":", " ">>
Ampersand == <<" ", "&", " ">>

\* line 289: cluster_docs[0][:20]
TitlePrefixLen == 20
\* lines 269 and 273: keyphrase_ngram_range=(1, 2), top_n=2
NgramMax == 2
top_n == 2

\* line 263
full_text_of(cluster_docs) ==
    str_join(<<" ">>, [i \in 1..Len(cluster_docs) |-> strip_punctuation(str_lower(cluster_docs[i]))])

\* the candidate phrases of a text: every run of 1..NgramMax consecutive words
Candidates(text) ==
    LET words == str_split(text)
    IN {str_join(<<" ">>, SubSeq(words, r[1], r[1] + r[2] - 1)) :
            r \in {q \in (1..Len(words)) \X (1..NgramMax) : q[1] + q[2] - 1 <= Len(words)}}

\* what extract_keywords may do on a text: raise, or return the phrases
ExtractOutcomes(text) ==
    {[raised |-> TRUE, keywords |-> <<>>]}
        \cup {[raised |-> FALSE, keywords |-> kw] :
                kw \in {k \in UNION {[1..n -> Candidates(text)] : n \in 0..top_n} : NoRepeat(k)}}

\* a variant without the except clause of lines 288-289
generate_synthetic_title_unguarded(cluster_docs, extraction) ==
    IF cluster_docs = <<>> THEN [raised |-> FALSE, value |-> UntitledSection]
    ELSE IF extraction.raised THEN [raised |-> TRUE, value |-> <<>>]
    ELSE IF extraction.keywords = <<>> THEN [raised |-> FALSE, value |-> GeneralTopic]
    ELSE [raised |-> FALSE, value |-> str_title(str_join(Ampersand, extraction.keywords))]

\* lines 258-289; extraction is what extract_keywords did on the full text
generate_synthetic_title(cluster_docs, extraction) ==
    IF cluster_docs = <<>> THEN [raised |-> FALSE, value |-> UntitledSection]
    ELSE IF extraction.raised
    THEN [raised |-> FALSE,
          value |-> SectionPrefix \o str_title(Take(cluster_docs[1], TitlePrefixLen))]
    ELSE IF extraction.keywords = <<>> THEN [raised |-> FALSE, value |-> GeneralTopic]
    ELSE [raised |-> FALSE, value |-> str_title(str_join(Ampersand, extraction.keywords))]

(***************************************************************************)
(* One call of generate_synthetic_title on a cluster of stored documents.  *)
(***************************************************************************)
MaxCluster == 2
TitleNames == {<<"a">>, <<"B">>}
TitleDescriptions ==
    {<<>>, <<"x">>, <<"a", " ", "x">>,
     <<"a", "b", " ", "x", "!", " ", "b", "a", " ", "x", "b", " ", "a", "x", " ", "b">>}
TitleDocs == {format_text(n, d) : n \in TitleNames, d \in TitleDescriptions}
TitleOff == [pc |-> "off"]

TitleInit ==
    title \in [cluster_docs : UNION {[1..n -> TitleDocs] : n \in 0..MaxCluster},
               extraction : {None},
               result : {None},
               pc : {"input"}]

\* the call; an empty cluster returns before the extractor is asked
TitleCall ==
    /\ title.pc = "input"
    /\ \E extraction \in ExtractOutcomes(full_text_of(title.cluster_docs)) :
           LET r == generate_synthetic_title(title.cluster_docs, extraction)
           IN title' = [title EXCEPT
                  !.extraction = IF title.cluster_docs = <<>> THEN None ELSE Some(extraction),
                  !.result = IF r.raised THEN None ELSE Some(r.value),
                  !.pc = IF r.raised THEN "raised" ELSE "returned"]
    /\ UNCHANGED <<codec, build, branch, collection, cacheVars, dataVars>>
(***************************************************************************)
(* The embedding store: chroma_client.py.  The collection is the list of   *)
(* its documents in insertion order; the embedding of a document is a      *)
(* fixed function of its text.                                             *)
(***************************************************************************)
Names == {NameOf(i) : i \in 1..MaxDocs}
Descriptions == {<<"x">>}

Chars == <<"a", "b", "c", "d", "e", "f", "g", "h", ".", " ", ":", "x", "y">>
Code(ch) == CHOOSE i \in 1..Len(Chars) : Chars[i] = ch
VecList == <<<<1, 0>>, <<3, 4>>, <<0, 1>>, <<-1, 0>>>>

\* SentenceTransformerEmbeddingFunction: one vector per text
emb_fn(text) ==
    VecList[(SumOver(1..Len(text), [i \in 1..Len(text) |-> i * Code(text[i])]) % Len(VecList)) + 1]

HasId(coll, name) == \E i \in 1..Len(coll) : coll[i].id = name

document_of(name, description) ==
    [id |-> name, document |-> format_text(name, description),
     embedding |-> emb_fn(format_text(name, description))]

\* collection.add: an id already in the collection is left as it is
insert_data(coll, name, description) ==
    IF HasId(coll, name) THEN coll ELSE Append(coll, document_of(name, description))

\* collection.upsert in the place of collection.update
update_data_upsert(coll, name, description) ==
    IF HasId(coll, name)
    THEN [i \in 1..Len(coll) |-> IF coll[i].id = name THEN document_of(name, description) ELSE coll[i]]
    ELSE Append(coll, document_of(name, description))

\* collection.update: an id that is not in the collection is ignored
update_data(coll, name, description) ==
    [i \in 1..Len(coll) |-> IF coll[i].id = name THEN document_of(name, description) ELSE coll[i]]

\* collection.delete(ids=[name])
remove_data(coll, name) == SelectSeq(coll, LAMBDA d : d.id # name)

\* collection.get(include=['embeddings', 'documents'])
get_all(coll) ==
    [ids |-> [i \in 1..Len(coll) |-> coll[i].id],
     documents |-> [i \in 1..Len(coll) |-> coll[i].document],
     embeddings |-> [i \in 1..Len(coll) |-> coll[i].embedding]]

\* Embedder.generate_toc_structure on the data read from the collection
generate_toc_structure(data) ==
    _generate_toc_structure(data.documents, data.ids, data.embeddings, 1, 3)

(***************************************************************************)
(* The cache file: pages/writer.py.  The text json.dump writes for a tree  *)
(* is a run of cells, one more than the tree has nodes; a cell keeps the   *)
(* tree it was written for and its place in that text.  A file parses when *)
(* it is, cell for cell, the whole text of one tree.                       *)
(***************************************************************************)
RECURSIVE NodeCount(_)
NodeCount(tree) ==
    IF tree = <<>> THEN 0
    ELSE LET node == Head(tree)
         IN 1 + (IF node.type = "heading" THEN NodeCount(node.children) ELSE 0)
              + NodeCount(Tail(tree))

json_dumps(structure) ==
    [i \in 1..(NodeCount(structure) + 1) |-> [of |-> structure, at |-> i]]

\* json.load: the tree, or no value when the decoder raises
json_loads(cells) ==
    IF cells # <<>> /\ cells[1].at = 1 /\ cells = json_dumps(cells[1].of)
    THEN Some(cells[1].of)
    ELSE None

\* a byte never written, below a later write
Hole == [of |-> <<>>, at |-> 0]

Max(a, b) == IF a >= b THEN a ELSE b

\* write(2) at the writer's own offset
WriteAt(cells, offset, chunk) ==
    [i \in 1..Max(Len(cells), offset + Len(chunk)) |->
        IF i > offset /\ i <= offset + Len(chunk) THEN chunk[i - offset]
        ELSE IF i <= Len(cells) THEN cells[i]
        ELSE Hole]

\* open(TOC_CACHE_PATH, 'w') without O_TRUNC: a slip of mode 'r+' for 'w'
open_keep(file) == [exists |-> TRUE, cells |-> file.cells]

\* open(TOC_CACHE_PATH, 'w'): the file is created or emptied
open_w(file) == [exists |-> TRUE, cells |-> <<>>]

load_toc_structure(file) ==
    IF file.exists THEN json_loads(file.cells) ELSE None

(***************************************************************************)
(* render_toc_from_structure                                               *)
(***************************************************************************)
\* node.get(key, 'N/A'): the value, or no value for the default
Get(node, key) == IF key \in DOMAIN node THEN Some(node[key]) ELSE None

RECURSIVE render_body(_)
render_body(node) ==
    IF node.type = "heading"
    THEN [tag |-> IF node.level = 1 THEN "H2" ELSE "H3",
          title |-> node.title,
          originality |-> Get(node, "originality"),
          items |-> [k \in 1..Len(node.children) |-> render_body(node.children[k])]]
    ELSE [tag |-> "Li",
          full_text |-> node.title \o <<" ", ":", " ">> \o unformat_text(node.title, node.text),
          originality |-> Get(node, "originality")]

render_toc_from_structure(structure) ==
    IF structure = <<>>
    THEN [card |-> "No content available"]
    ELSE [summary |-> [i \in 1..Len(structure) |-> structure[i].title],
          body |-> [i \in 1..Len(structure) |-> render_body(structure[i])]]

(***************************************************************************)
(* update_toc, one callback per handler thread                             *)
(***************************************************************************)
Handlers == {"h1", "h2"}
Clicks == {0, 1}

TocIdle ==
    [pc |-> "idle", n_clicks |-> 0, cached_structure |-> None, data |-> None,
     structure |-> None, written |-> 0, dump |-> "none", rendered |-> None]

Dumping(p) == toc[p].pc = "dump"

\* a slip on line 176: the cache is tried on every call, rebuild requests too
UpdateTocEnterCacheFirst(p, n) ==
    /\ toc[p].pc = "idle"
    /\ LET cached == load_toc_structure(cacheFile)
       IN toc' = [toc EXCEPT ![p] =
              IF cached # None
              THEN [TocIdle EXCEPT !.pc = "returned", !.n_clicks = n,
                                   !.cached_structure = cached,
                                   !.rendered = Some(render_toc_from_structure(cached[1]))]
              ELSE [TocIdle EXCEPT !.pc = "generate", !.n_clicks = n,
                                   !.cached_structure = cached]]
    /\ UNCHANGED <<pureVars, dataVars, collection, cacheFile, lastDump, overlapped>>

\* a slip on line 179: the cached structure is read and then not used
UpdateTocEnterNoReuse(p, n) ==
    /\ toc[p].pc = "idle"
    /\ toc' = [toc EXCEPT ![p] =
           [TocIdle EXCEPT !.pc = "generate", !.n_clicks = n,
                           !.cached_structure =
                               IF n = 0 THEN load_toc_structure(cacheFile) ELSE None]]
    /\ UNCHANGED <<pureVars, dataVars, collection, cacheFile, lastDump, overlapped>>

\* a slip on lines 47-50: a file that does not parse raises out of the load
UpdateTocEnterLoadRaises(p, n) ==
    /\ toc[p].pc = "idle"
    /\ LET cached == IF n = 0 THEN load_toc_structure(cacheFile) ELSE None
       IN toc' = [toc EXCEPT ![p] =
              IF cached # None
              THEN [TocIdle EXCEPT !.pc = "returned", !.n_clicks = n,
                                   !.cached_structure = cached,
                                   !.rendered = Some(render_toc_from_structure(cached[1]))]
              ELSE IF n = 0 /\ cacheFile.exists
              THEN [TocIdle EXCEPT !.pc = "raised", !.n_clicks = n]
              ELSE [TocIdle EXCEPT !.pc = "generate", !.n_clicks = n,
                                   !.cached_structure = cached]]
    /\ UNCHANGED <<pureVars, dataVars, collection, cacheFile, lastDump, overlapped>>

\* lines 176-183: on n_clicks = 0 the cached structure, if there is one, is
\* rendered and returned
UpdateTocEnter(p, n) ==
    /\ toc[p].pc = "idle"
    /\ LET cached == IF n = 0 THEN load_toc_structure(cacheFile) ELSE None
       IN toc' = [toc EXCEPT ![p] =
              IF cached # None
              THEN [TocIdle EXCEPT !.pc = "returned", !.n_clicks = n,
                                   !.cached_structure = cached,
                                   !.rendered = Some(render_toc_from_structure(cached[1]))]
              ELSE [TocIdle EXCEPT !.pc = "generate", !.n_clicks = n,
                                   !.cached_structure = cached]]
    /\ UNCHANGED <<pureVars, dataVars, collection, cacheFile, lastDump, overlapped>>

\* line 188, data_similarity.py line 164: the one read of the collection
UpdateTocRead(p) ==
    /\ toc[p].pc = "generate"
    /\ toc' = [toc EXCEPT ![p].pc = "build", ![p].data = Some(get_all(collection))]
    /\ UNCHANGED <<pureVars, dataVars, collection, cacheFile, lastDump, overlapped>>

\* a slip: the builder reads the collection again where it uses the data
UpdateTocBuildReread(p) ==
    /\ toc[p].pc = "build"
    /\ toc' = [toc EXCEPT ![p].pc = "save",
                          ![p].structure = Some(generate_toc_structure(get_all(collection)))]
    /\ UNCHANGED <<pureVars, dataVars, collection, cacheFile, lastDump, overlapped>>

\* line 188, data_similarity.py lines 165-169: the tree is built from the
\* data that was read
UpdateTocBuild(p) ==
    /\ toc[p].pc = "build"
    /\ toc' = [toc EXCEPT ![p].pc = "save",
                          ![p].structure = Some(generate_toc_structure(toc[p].data[1]))]
    /\ UNCHANGED <<pureVars, dataVars, collection, cacheFile, lastDump, overlapped>>

\* a slip: the failed read is caught and an empty structure is saved
UpdateTocGenerateRaiseSaveEmpty(p) ==
    /\ toc[p].pc = "generate"
    /\ toc' = [toc EXCEPT ![p].pc = "raised"]
    /\ cacheFile' = [exists |-> TRUE, cells |-> json_dumps(<<>>)]
    /\ UNCHANGED <<pureVars, dataVars, collection, lastDump, overlapped>>

\* lines 186-188: the store cannot be read; the exception leaves update_toc
UpdateTocGenerateRaise(p) ==
    /\ toc[p].pc = "generate"
    /\ toc' = [toc EXCEPT ![p].pc = "raised"]
    /\ UNCHANGED <<pureVars, dataVars, collection, cacheFile, lastDump, overlapped>>

\* line 28
SaveOpen(p) ==
    /\ toc[p].pc = "save"
    /\ cacheFile' = open_w(cacheFile)
    /\ toc' = [toc EXCEPT ![p].pc = "dump", ![p].dump = "open", ![p].written = 0]
    /\ lastDump' = None
    /\ overlapped' = \E q \in Handlers \ {p} : Dumping(q)
    /\ UNCHANGED <<pureVars, dataVars, collection>>

Text(p) == json_dumps(toc[p].structure[1])
Pending(p) == Len(Text(p)) - toc[p].written

\* line 29: the buffer of the file object is full and is written out
SaveFlush(p) ==
    /\ Dumping(p)
    /\ Pending(p) > BufCells
    /\ cacheFile' = [cacheFile EXCEPT !.cells =
           WriteAt(@, toc[p].written,
                   SubSeq(Text(p), toc[p].written + 1, toc[p].written + BufCells))]
    /\ toc' = [toc EXCEPT ![p].written = @ + BufCells]
    /\ UNCHANGED <<pureVars, dataVars, collection, lastDump, overlapped>>

\* update_toc goes on after save_toc_structure: line 194
Rendered(p, outcome) ==
    [toc[p] EXCEPT !.pc = "returned", !.dump = outcome, !.written = 0,
                   !.rendered = Some(render_toc_from_structure(toc[p].structure[1]))]

\* lines 28-29: leaving the with block writes the rest and closes the file
SaveClose(p) ==
    /\ Dumping(p)
    /\ Pending(p) <= BufCells
    /\ cacheFile' = [cacheFile EXCEPT !.cells =
           WriteAt(@, toc[p].written, SubSeq(Text(p), toc[p].written + 1, Len(Text(p))))]
    /\ toc' = [toc EXCEPT ![p] = Rendered(p, "closed")]
    /\ lastDump' = Some([by |-> p, structure |-> toc[p].structure[1], alone |-> ~overlapped])
    /\ UNCHANGED <<pureVars, dataVars, collection, overlapped>>

\* lines 30-31: open or write raised; the exception is printed and dropped
SaveError(p) ==
    /\ toc[p].pc \in {"save", "dump"}
    /\ toc' = [toc EXCEPT ![p] = Rendered(p, "failed")]
    /\ UNCHANGED <<pureVars, dataVars, collection, cacheFile, lastDump, overlapped>>

\* the callback is over, with its result or with the exception
UpdateTocLeave(p) ==
    /\ toc[p].pc \in {"returned", "raised"}
    /\ toc' = [toc EXCEPT ![p] = TocIdle]
    /\ UNCHANGED <<pureVars, dataVars, collection, cacheFile, lastDump, overlapped>>

(***************************************************************************)
(* Other clients of the store.  Names are added in pool order and the      *)
(* newest document is the one deleted, which keeps the collections few;    *)
(* the builder does not look into an id.                                   *)
(***************************************************************************)
StoreInsert(name, description) ==
    /\ Len(collection) < MaxDocs
    /\ name = NameOf(Len(collection) + 1)
    /\ collection' = insert_data(collection, name, description)
    /\ UNCHANGED <<pureVars, dataVars, cacheFile, toc, lastDump, overlapped>>

StoreRemove(name) ==
    /\ collection # <<>>
    /\ name = collection[Len(collection)].id
    /\ collection' = remove_data(collection, name)
    /\ UNCHANGED <<pureVars, dataVars, cacheFile, toc, lastDump, overlapped>>

(***************************************************************************)
(* The record operations: data_handler.py.  One call runs at a time; the   *)
(* embedding write of add_data and update_data runs on a worker thread of  *)
(* a ThreadPoolExecutor that the call opens in a with block.  The future   *)
(* is "running" from submit until the worker returns or raises; a worker   *)
(* that blocks for ever stays "running".                                   *)
(***************************************************************************)
DataNames == {NameOf(i) : i \in 1..MaxNames}
DataDescriptions == {<<"x">>, <<"y">>}

CallIdle ==
    [pc |-> "idle", fn |-> "none", name |-> <<>>, description |-> <<>>,
     existed |-> FALSE, committed |-> FALSE, future |-> "none",
     timed_out |-> FALSE, printed |-> "none"]

\* add_data: INSERT and commit, or IntegrityError when the name is taken
AddDataCommit(name, description) ==
    /\ call.pc = "idle"
    /\ IF sqlData[name] # None
       THEN /\ call' = [CallIdle EXCEPT !.pc = "returned", !.fn = "add_data", !.name = name,
                                        !.description = description, !.existed = TRUE,
                                        !.printed = "exists"]
            /\ UNCHANGED sqlData
       ELSE /\ sqlData' = [sqlData EXCEPT ![name] = Some(description)]
            /\ call' = [CallIdle EXCEPT !.pc = "committed", !.fn = "add_data", !.name = name,
                                        !.description = description, !.committed = TRUE]
    /\ UNCHANGED <<pureVars, cacheVars, editVars, collection>>

\* update_data: UPDATE and commit; no row has the name: nothing changes
UpdateDataCommit(name, description) ==
    /\ call.pc = "idle"
    /\ sqlData' = IF sqlData[name] = None THEN sqlData
                  ELSE [sqlData EXCEPT ![name] = Some(description)]
    /\ call' = [CallIdle EXCEPT !.pc = "committed", !.fn = "update_data", !.name = name,
                                !.description = description, !.existed = (sqlData[name] # None),
                                !.committed = TRUE]
    /\ UNCHANGED <<pureVars, cacheVars, editVars, collection>>

\* executor.submit(lambda: ChromaClient().insert_data / update_data(...))
Submit ==
    /\ call.pc = "committed"
    /\ call' = [call EXCEPT !.pc = "waiting", !.future = "running"]
    /\ UNCHANGED <<pureVars, cacheVars, editVars, collection, sqlData>>

\* the worker thread writes the collection and returns
WorkerRun ==
    /\ call.future = "running"
    /\ collection' = IF call.fn = "add_data"
                     THEN insert_data(collection, call.name, call.description)
                     ELSE update_data(collection, call.name, call.description)
    /\ call' = [call EXCEPT !.future = "finished"]
    /\ UNCHANGED <<pureVars, cacheVars, editVars, sqlData>>

\* the worker thread raises: the store cannot be opened or refuses the write
WorkerRaise ==
    /\ call.future = "running"
    /\ call' = [call EXCEPT !.future = "raised"]
    /\ UNCHANGED <<pureVars, cacheVars, editVars, collection, sqlData>>

\* future.result returns, the with block ends, the success line is printed
AwaitResult ==
    /\ call.pc = "waiting"
    /\ call.future = "finished"
    /\ call' = [call EXCEPT !.pc = "returned", !.printed = "success"]
    /\ UNCHANGED <<pureVars, cacheVars, editVars, collection, sqlData>>

\* a variant of AwaitException that takes the committed row back
AwaitExceptionRollback ==
    /\ call.pc = "waiting"
    /\ call.future = "raised"
    /\ call' = [call EXCEPT !.pc = "returned", !.printed = "error"]
    /\ sqlData' = [sqlData EXCEPT ![call.name] = None]
    /\ UNCHANGED <<pureVars, cacheVars, editVars, collection>>

\* future.result re-raises the worker's exception; except Exception prints it
AwaitException ==
    /\ call.pc = "waiting"
    /\ call.future = "raised"
    /\ call' = [call EXCEPT !.pc = "returned", !.printed = "error"]
    /\ UNCHANGED <<pureVars, cacheVars, editVars, collection, sqlData>>

\* future.result(timeout=30) raises TimeoutError: the with block is left and
\* its exit calls executor.shutdown(wait=True)
AwaitTimeout ==
    /\ call.pc = "waiting"
    /\ call.future = "running"
    /\ call' = [call EXCEPT !.pc = "shutdown", !.timed_out = TRUE]
    /\ UNCHANGED <<pureVars, cacheVars, editVars, collection, sqlData>>

\* shutdown(wait=True) returns once the worker has ended; except Exception
\* then prints the TimeoutError
ShutdownJoin ==
    /\ call.pc = "shutdown"
    /\ call.future \in {"finished", "raised"}
    /\ call' = [call EXCEPT !.pc = "returned", !.printed = "error"]
    /\ UNCHANGED <<pureVars, cacheVars, editVars, collection, sqlData>>

\* a variant of RemoveDataCommit that also deletes the cache file
RemoveDataCommitInvalidate(name) ==
    /\ call.pc = "idle"
    /\ sqlData' = [sqlData EXCEPT ![name] = None]
    /\ call' = [CallIdle EXCEPT !.pc = "removing", !.fn = "remove_data", !.name = name,
                                !.existed = (sqlData[name] # None), !.committed = TRUE]
    /\ cacheFile' = NoFile
    /\ UNCHANGED <<pureVars, editVars, toc, lastDump, overlapped, collection>>

\* remove_data: DELETE and commit.  Where foreign keys are enforced the
\* DELETE of a row that a relation refers to raises IntegrityError, which
\* except sqlite3.Error prints
RemoveDataCommit(name) ==
    /\ call.pc = "idle"
    /\ IF foreign_keys /\ sqlData[name] # None /\ \E r \in relation : r[1] = name
       THEN /\ call' = [CallIdle EXCEPT !.pc = "returned", !.fn = "remove_data", !.name = name,
                                        !.existed = TRUE, !.printed = "error"]
            /\ UNCHANGED sqlData
       ELSE /\ sqlData' = [sqlData EXCEPT ![name] = None]
            /\ call' = [CallIdle EXCEPT !.pc = "removing", !.fn = "remove_data", !.name = name,
                                        !.existed = (sqlData[name] # None), !.committed = TRUE]
    /\ UNCHANGED <<pureVars, cacheVars, editVars, collection>>

\* remove_data: ChromaClient().remove_data(name) on the calling thread
RemoveEmbedding ==
    /\ call.pc = "removing"
    /\ collection' = remove_data(collection, call.name)
    /\ call' = [call EXCEPT !.pc = "returned", !.printed = "success"]
    /\ UNCHANGED <<pureVars, cacheVars, editVars, sqlData>>

\* remove_data: the store raises; except sqlite3.Error does not catch it
RemoveEmbeddingRaise ==
    /\ call.pc = "removing"
    /\ call' = [call EXCEPT !.pc = "raised"]
    /\ UNCHANGED <<pureVars, cacheVars, editVars, collection, sqlData>>

\* the call is over, the next one may start
CallReturn ==
    /\ call.pc \in {"returned", "raised"}
    /\ call' = CallIdle
    /\ UNCHANGED <<pureVars, cacheVars, editVars, collection, sqlData>>


(***************************************************************************)
(* Tags and relations: data_handler.py, and the relation callback of       *)
(* pages/editor.py.  Every call opens its own connection and none sets     *)
(* PRAGMA foreign_keys, so whether the FOREIGN KEY clauses of the relation *)
(* table are enforced is the default of the SQLite library in use.  One    *)
(* of these calls runs at a time, between the calls on the data table.     *)
(***************************************************************************)
TagNames == {<<"t">>}

\* layout, lines 20-21: the ids of the two buttons of the callback
RelationButtons == {"button-add-relation", "button-remove-relation"}

UiIdle == [pc |-> "idle"]

Quiet == call.pc = "idle" /\ ui.pc = "idle"

\* add_relation: the INSERT, or IntegrityError on a row that is there or,
\* where foreign keys are enforced, on a missing data item or tag
add_relation(data_name, tag_name) ==
    IF \/ <<data_name, tag_name>> \in relation
       \/ foreign_keys /\ (data_name \notin DataNames \/ sqlData[data_name] = None
                             \/ tag_name \notin tags)
    THEN relation
    ELSE relation \cup {<<data_name, tag_name>>}

\* remove_relation: the DELETE
remove_relation(data_name, tag_name) == relation \ {<<data_name, tag_name>>}

\* get_tags_from_data for a non-empty name: the tag names of its rows in
\* the relation table
get_tags_from_data(rows, data) == {r[2] : r \in {q \in rows : q[1] = data}}

\* add_tag: the INSERT, or IntegrityError on a name that is there
AddTag(name) ==
    /\ Quiet
    /\ tags' = tags \cup {name}
    /\ UNCHANGED <<pureVars, cacheVars, collection, sqlData, call, relation, foreign_keys, ui>>

AddRelation(data_name, tag_name) ==
    /\ Quiet
    /\ relation' = add_relation(data_name, tag_name)
    /\ UNCHANGED <<pureVars, cacheVars, collection, sqlData, call, tags, foreign_keys, ui>>

\* remove_tag: the DELETE, refused where foreign keys are enforced and a
\* relation refers to the tag
RemoveTag(name) ==
    /\ Quiet
    /\ tags' = IF foreign_keys /\ name \in tags /\ \E r \in relation : r[2] = name
               THEN tags
               ELSE tags \ {name}
    /\ UNCHANGED <<pureVars, cacheVars, collection, sqlData, call, relation, foreign_keys, ui>>

RemoveRelation(data_name, tag_name) ==
    /\ Quiet
    /\ relation' = remove_relation(data_name, tag_name)
    /\ UNCHANGED <<pureVars, cacheVars, collection, sqlData, call, tags, foreign_keys, ui>>

\* callback_relation, lines 145-151.  data_name is the text of the name
\* field, tag_name the value of the dropdown or None.  With an empty name
\* get_tags_from_data returns the rows of get_tags, which join refuses.
CallbackRelation(triggered_id, data_name, tag_name) ==
    /\ Quiet
    /\ relation' =
           IF triggered_id = "button-add-relation" /\ data_name # <<>> /\ tag_name # None
           THEN add_relation(data_name, tag_name[1])
           ELSE IF triggered_id = "button-remoce-relation" /\ data_name # <<>> /\ tag_name # None
           THEN remove_relation(data_name, tag_name[1])
           ELSE relation
    /\ ui' = IF data_name = <<>> /\ tags # {}
             THEN [pc |-> "raised", triggered_id |-> triggered_id, data_name |-> data_name,
                   tag_name |-> tag_name, taglist |-> None]
             ELSE [pc |-> "returned", triggered_id |-> triggered_id, data_name |-> data_name,
                   tag_name |-> tag_name,
                   taglist |-> Some(get_tags_from_data(relation', data_name))]
    /\ UNCHANGED <<pureVars, cacheVars, collection, sqlData, call, tags, foreign_keys>>

\* the callback is over
CallbackLeave ==
    /\ ui.pc \in {"returned", "raised"}
    /\ ui' = UiIdle
    /\ UNCHANGED <<pureVars, cacheVars, collection, sqlData, call, tags, relation, foreign_keys>>
(***************************************************************************)
(* Specifications                                                          *)
(***************************************************************************)
InitCodec ==
    /\ CodecInit
    /\ build = BuildIdle
    /\ branch = BranchIdle
    /\ collection = <<>>
    /\ cacheFile = NoFile
    /\ toc = <<>>
    /\ lastDump = None
    /\ overlapped = FALSE
    /\ sqlData = <<>>
    /\ call = CallOff
    /\ title = TitleOff
    /\ tags = {}
    /\ relation = {}
    /\ foreign_keys = FALSE
    /\ ui = CallOff

NextCodec == CodecFormat \/ CodecUnformat

SpecCodec == InitCodec /\ [][NextCodec]_vars

InitBuild ==
    /\ BuildInit
    /\ branch = BranchIdle
    /\ codec = CodecIdle
    /\ collection = <<>>
    /\ cacheFile = NoFile
    /\ toc = <<>>
    /\ lastDump = None
    /\ overlapped = FALSE
    /\ sqlData = <<>>
    /\ call = CallOff
    /\ title = TitleOff
    /\ tags = {}
    /\ relation = {}
    /\ foreign_keys = FALSE
    /\ ui = CallOff

NextBuild == BuildToc

SpecBuild == InitBuild /\ [][NextBuild]_vars

Init ==
    /\ codec = CodecIdle
    /\ build = BuildIdle
    /\ branch = BranchIdle
    /\ collection = <<>>
    /\ cacheFile = NoFile
    /\ toc = [p \in Handlers |-> TocIdle]
    /\ lastDump = None
    /\ overlapped = FALSE
    /\ sqlData = <<>>
    /\ call = CallOff
    /\ title = TitleOff
    /\ tags = {}
    /\ relation = {}
    /\ foreign_keys = FALSE
    /\ ui = CallOff

Next ==
    \/ \E p \in Handlers, n \in Clicks : UpdateTocEnter(p, n)
    \/ \E p \in Handlers : UpdateTocRead(p)
    \/ \E p \in Handlers : UpdateTocBuild(p)
    \/ \E p \in Handlers : UpdateTocGenerateRaise(p)
    \/ \E p \in Handlers : SaveOpen(p)
    \/ \E p \in Handlers : SaveFlush(p)
    \/ \E p \in Handlers : SaveClose(p)
    \/ \E p \in Handlers : SaveError(p)
    \/ \E p \in Handlers : UpdateTocLeave(p)
    \/ \E name \in Names, description \in Descriptions : StoreInsert(name, description)
    \/ \E name \in Names : StoreRemove(name)

Spec == Init /\ [][Next]_vars


InitData ==
    /\ codec = CodecIdle
    /\ build = BuildIdle
    /\ branch = BranchIdle
    /\ collection = <<>>
    /\ cacheFile = NoFile
    /\ toc = <<>>
    /\ lastDump = None
    /\ overlapped = FALSE
    /\ sqlData = [name \in DataNames |-> None]
    /\ call = CallIdle
    /\ title = TitleOff
    /\ tags = {}
    /\ relation = {}
    /\ foreign_keys = FALSE
    /\ ui = CallOff

NextData ==
    \/ \E name \in DataNames, description \in DataDescriptions : AddDataCommit(name, description)
    \/ \E name \in DataNames, description \in DataDescriptions : UpdateDataCommit(name, description)
    \/ Submit
    \/ WorkerRun
    \/ WorkerRaise
    \/ AwaitResult
    \/ AwaitException
    \/ AwaitTimeout
    \/ ShutdownJoin
    \/ \E name \in DataNames : RemoveDataCommit(name)
    \/ RemoveEmbedding
    \/ RemoveEmbeddingRaise
    \/ CallReturn

SpecData == InitData /\ [][NextData]_vars

InitBranch ==
    /\ BranchInit
    /\ codec = CodecIdle
    /\ build = BuildIdle
    /\ collection = <<>>
    /\ cacheFile = NoFile
    /\ toc = <<>>
    /\ lastDump = None
    /\ overlapped = FALSE
    /\ sqlData = <<>>
    /\ call = CallOff
    /\ title = TitleOff
    /\ tags = {}
    /\ relation = {}
    /\ foreign_keys = FALSE
    /\ ui = CallOff

NextBranch == BranchCall

SpecBranch == InitBranch /\ [][NextBranch]_vars

InitTitle ==
    /\ TitleInit
    /\ tags = {}
    /\ relation = {}
    /\ foreign_keys = FALSE
    /\ ui = CallOff
    /\ codec = CodecIdle
    /\ build = BuildIdle
    /\ branch = BranchIdle
    /\ collection = <<>>
    /\ cacheFile = NoFile
    /\ toc = <<>>
    /\ lastDump = None
    /\ overlapped = FALSE
    /\ sqlData = <<>>
    /\ call = CallOff

NextTitle == TitleCall

SpecTitle == InitTitle /\ [][NextTitle]_vars

\* the record operations beside one update_toc callback
Viewer == CHOOSE p \in Handlers : TRUE

InitStale ==
    /\ codec = CodecIdle
    /\ build = BuildIdle
    /\ branch = BranchIdle
    /\ title = TitleOff
    /\ tags = {}
    /\ relation = {}
    /\ foreign_keys = FALSE
    /\ ui = CallOff
    /\ collection = <<>>
    /\ cacheFile = NoFile
    /\ toc = [p \in Handlers |-> TocIdle]
    /\ lastDump = None
    /\ overlapped = FALSE
    /\ sqlData = [name \in DataNames |-> None]
    /\ call = CallIdle

NextStale ==
    \/ \E name \in DataNames, description \in Descriptions : AddDataCommit(name, description)
    \/ \E name \in DataNames, description \in Descriptions : UpdateDataCommit(name, description)
    \/ Submit
    \/ WorkerRun
    \/ WorkerRaise
    \/ AwaitResult
    \/ AwaitException
    \/ AwaitTimeout
    \/ ShutdownJoin
    \/ \E name \in DataNames : RemoveDataCommit(name)
    \/ RemoveEmbedding
    \/ RemoveEmbeddingRaise
    \/ CallReturn
    \/ \E n \in Clicks : UpdateTocEnter(Viewer, n)
    \/ UpdateTocRead(Viewer)
    \/ UpdateTocBuild(Viewer)
    \/ UpdateTocGenerateRaise(Viewer)
    \/ SaveOpen(Viewer)
    \/ SaveFlush(Viewer)
    \/ SaveClose(Viewer)
    \/ SaveError(Viewer)
    \/ UpdateTocLeave(Viewer)

SpecStale == InitStale /\ [][NextStale]_vars

\* the record operations in the executions where the embedding store
\* answers every call in time
NextAgree ==
    \/ \E name \in DataNames, description \in DataDescriptions : AddDataCommit(name, description)
    \/ \E name \in DataNames, description \in DataDescriptions : UpdateDataCommit(name, description)
    \/ Submit
    \/ WorkerRun
    \/ AwaitResult
    \/ \E name \in DataNames : RemoveDataCommit(name)
    \/ RemoveEmbedding
    \/ CallReturn

SpecAgree == InitData /\ [][NextAgree]_vars

\* the editor page: data items, tags and relations
InitEditor ==
    /\ codec = CodecIdle
    /\ build = BuildIdle
    /\ branch = BranchIdle
    /\ title = TitleOff
    /\ collection = <<>>
    /\ cacheFile = NoFile
    /\ toc = <<>>
    /\ lastDump = None
    /\ overlapped = FALSE
    /\ sqlData = [name \in DataNames |-> None]
    /\ call = CallIdle
    /\ tags = {}
    /\ relation = {}
    /\ foreign_keys \in BOOLEAN
    /\ ui = UiIdle

NextEditor ==
    \/ \E name \in DataNames, description \in Descriptions : AddDataCommit(name, description)
    \/ Submit
    \/ WorkerRun
    \/ WorkerRaise
    \/ AwaitResult
    \/ AwaitException
    \/ AwaitTimeout
    \/ ShutdownJoin
    \/ \E name \in DataNames : RemoveDataCommit(name)
    \/ RemoveEmbedding
    \/ RemoveEmbeddingRaise
    \/ CallReturn
    \/ \E name \in TagNames : AddTag(name)
    \/ \E data_name \in DataNames, tag_name \in TagNames : AddRelation(data_name, tag_name)
    \/ \E name \in TagNames : RemoveTag(name)
    \/ \E data_name \in DataNames, tag_name \in TagNames : RemoveRelation(data_name, tag_name)
    \/ \E triggered_id \in RelationButtons, data_name \in DataNames \cup {<<>>},
          tag_name \in {Some(t) : t \in TagNames} \cup {None} :
              CallbackRelation(triggered_id, data_name, tag_name)
    \/ CallbackLeave

SpecEditor == InitEditor /\ [][NextEditor]_vars
(***************************************************************************)
(* Properties                                                              *)
(***************************************************************************)
\* C1: the leaf ids of the returned tree are exactly the input ids, each
\* in exactly one leaf.
C1_Coverage ==
    build.pc = "built" =>
        /\ SeqToSet(LeafIds(build.toc[1])) = SeqToSet(build.ids)
        /\ NoRepeat(LeafIds(build.toc[1]))

C1_Witness ==
    /\ build.pc = "built"
    /\ Len(build.ids) = MaxCorpus
    /\ HeadingLevels(build.toc[1]) # {}
    /\ SeqToSet(LeafIds(build.toc[1])) = SeqToSet(build.ids)

\* C2: with the top-level call at level 1, no heading has a level above
\* max_depth and every leaf sits at nesting level max_depth + 1 or less.
C2_DepthBound ==
    build.pc = "built" =>
        /\ \A l \in HeadingLevels(build.toc[1]) : l <= build.max_depth
        /\ \A l \in LeafDepths(build.toc[1], 1) : l <= build.max_depth + 1

C2_Witness ==
    /\ build.pc = "built"
    /\ build.max_depth \in HeadingLevels(build.toc[1])
    /\ (build.max_depth + 1) \in LeafDepths(build.toc[1], 1)
    /\ \E i \in 1..Len(build.toc[1]) :
           build.toc[1][i].type = "heading" /\ Len(build.toc[1][i].children) > 2

\* C3: for every name and every description that does not contain the
\* generated prefix pattern, decoding the encoded text returns exactly the
\* description.
C3_RoundTrip ==
    (codec.pc = "decoded" /\ ~Contains(codec.description, prefix_pattern(codec.name)))
        => codec.decoded = Some(codec.description)

\* C4: after a save_toc_structure that ran beside no other save, and
\* until the next save opens the file, load_toc_structure returns the saved
\* tree, leaf ids included, whatever the file held before.
C4_CacheRoundTrip ==
    (lastDump # None /\ lastDump[1].alone) =>
        LET loaded == load_toc_structure(cacheFile)
        IN /\ loaded = Some(lastDump[1].structure)
           /\ SeqToSet(LeafIds(loaded[1])) = SeqToSet(LeafIds(lastDump[1].structure))

\* one callback still holds the version it loaded before the save, another
\* has loaded the version the save has written
C4_Witness ==
    /\ lastDump # None
    /\ lastDump[1].alone
    /\ \E p, q \in Handlers :
           /\ toc[p].pc = "returned"
           /\ toc[p].n_clicks = 0
           /\ toc[p].cached_structure = Some(lastDump[1].structure)
           /\ toc[q].pc = "returned"
           /\ toc[q].cached_structure # None
           /\ LeafIds(toc[q].cached_structure[1]) # LeafIds(lastDump[1].structure)

\* C5: a callback with n_clicks > 0 reads the collection, builds the tree
\* from it and calls save_toc_structure with that tree, without looking at
\* the cache: the tree it hands to save_toc_structure is the builder's
\* output for the data read, the tree it holds later has the leaves of that
\* data, and when its save is the last one and ran alone, the cache file
\* holds its tree.
C5_RebuildAlwaysSaves ==
    \A p \in Handlers :
        (toc[p].n_clicks > 0 /\ toc[p].pc \in {"save", "dump", "returned"}) =>
            /\ toc[p].cached_structure = None
            /\ toc[p].data # None
            /\ toc[p].structure # None
            /\ toc[p].pc = "save" =>
                  toc[p].structure = Some(generate_toc_structure(toc[p].data[1]))
            /\ SeqToSet(LeafIds(toc[p].structure[1])) = SeqToSet(toc[p].data[1].ids)
            /\ toc[p].pc = "returned" => toc[p].dump \in {"closed", "failed"}
            /\ (toc[p].pc = "returned" /\ toc[p].dump = "closed"
                    /\ lastDump # None /\ lastDump[1].by = p /\ lastDump[1].alone)
                  => load_toc_structure(cacheFile) = toc[p].structure

\* a rebuild request has replaced the cached copy another callback had loaded
C5_Witness ==
    \E p, q \in Handlers :
        /\ toc[p].pc = "returned"
        /\ toc[p].n_clicks > 0
        /\ toc[p].dump = "closed"
        /\ lastDump # None
        /\ lastDump[1].by = p
        /\ lastDump[1].alone
        /\ load_toc_structure(cacheFile) = toc[p].structure
        /\ toc[q].pc = "returned"
        /\ toc[q].cached_structure # None
        /\ toc[q].cached_structure # toc[p].structure

\* C6: a callback with n_clicks = 0 that loaded a tree returns the rendering
\* of that tree; it has not read the collection, not built a tree and not
\* opened the cache file for writing.
C6_FirstViewUsesCache ==
    \A p \in Handlers :
        (toc[p].n_clicks = 0 /\ toc[p].cached_structure # None /\ toc[p].pc # "idle") =>
            /\ toc[p].pc = "returned"
            /\ toc[p].rendered = Some(render_toc_from_structure(toc[p].cached_structure[1]))
            /\ toc[p].data = None
            /\ toc[p].structure = None
            /\ toc[p].dump = "none"

C6_Witness ==
    \E p \in Handlers :
        /\ toc[p].pc = "returned"
        /\ toc[p].n_clicks = 0
        /\ toc[p].cached_structure # None
        /\ Len(LeafIds(toc[p].cached_structure[1])) = MaxDocs
        /\ toc[p].data = None
        /\ load_toc_structure(cacheFile) = toc[p].cached_structure

\* C7: the step in which the read of the collection raises leaves the cache
\* file as it was, and the callback has built and saved nothing.
C7_FailedFetchKeepsCache ==
    [][\A p \in Handlers :
          (toc[p].pc = "generate" /\ toc'[p].pc = "raised") =>
              /\ cacheFile' = cacheFile
              /\ load_toc_structure(cacheFile') = load_toc_structure(cacheFile)
              /\ toc'[p].structure = None
              /\ toc'[p].dump = "none"]_vars

\* a rebuild request has failed and the tree cached before is still loaded
C7_Witness ==
    \E p \in Handlers :
        /\ toc[p].pc = "raised"
        /\ toc[p].n_clicks > 0
        /\ toc[p].structure = None
        /\ lastDump # None
        /\ lastDump[1].structure # <<>>
        /\ load_toc_structure(cacheFile) = Some(lastDump[1].structure)

\* C8: when the saves of both rebuild requests have completed, the cache
\* file loads to the tree of the save that completed last.
C8_LastWriteWins ==
    \A p, q \in Handlers :
        (/\ p # q
         /\ toc[p].pc = "returned" /\ toc[p].n_clicks > 0 /\ toc[p].dump = "closed"
         /\ toc[q].pc = "returned" /\ toc[q].n_clicks > 0 /\ toc[q].dump = "closed"
         /\ lastDump # None
         /\ lastDump[1].by = p)
            => load_toc_structure(cacheFile) = Some(lastDump[1].structure)

\* the row as the call's commit has left it
RowAsCommitted ==
    IF call.fn = "add_data" \/ (call.fn = "update_data" /\ call.existed)
    THEN sqlData[call.name] = Some(call.description)
    ELSE sqlData[call.name] = None

\* C9: in add_data and update_data the embedding write is submitted only
\* after the commit; the committed row stays as committed whatever becomes
\* of the embedding write, and a call that returns after the write raised
\* or timed out has printed the error.
C9_NoRollback ==
    (call.pc # "idle" /\ call.fn \in {"add_data", "update_data"}) =>
        /\ call.future # "none" => call.committed
        /\ call.committed => RowAsCommitted
        /\ (call.pc = "returned" /\ (call.future = "raised" \/ call.timed_out))
              => call.printed = "error"

\* update_data has returned after its embedding write raised: the table has
\* the new description, the collection the old document
C9_Witness ==
    /\ call.pc = "returned"
    /\ call.fn = "update_data"
    /\ call.existed
    /\ call.future = "raised"
    /\ call.printed = "error"
    /\ sqlData[call.name] = Some(call.description)
    /\ \E i \in 1..Len(collection) :
           /\ collection[i].id = call.name
           /\ collection[i].document # format_text(call.name, call.description)

\* C10: once the timeout of future.result has passed, the call does not
\* wait for the worker any more.
C10_BoundedResponse ==
    call.timed_out => ~(call.pc = "shutdown" /\ call.future = "running")

\* round(sqrt(n)): the integer nearest to the square root of n
RoundSqrt(n) == CHOOSE r \in 0..n : (2 * r - 1) * (2 * r - 1) <= 4 * n /\ 4 * n < (2 * r + 1) * (2 * r + 1)

\* C11: a call that does not hit the stopping rule asks for
\* max(2, round(sqrt(n))) clusters.
C11_BranchingFactor ==
    (branch.pc = "called" /\ branch.stops = Some(FALSE)) =>
        branch.n_clusters = Some(Max2(2, RoundSqrt(branch.n)))

AllLeaves(list) == \A k \in 1..Len(list) : list[k].type = "idea"

\* C12: a build over no document returns the empty tree; a call on at most
\* two items or at a level above max_depth returns one leaf per item, in
\* order, and no heading.
C12_StoppingRule ==
    build.pc = "built" =>
        LET tree == build.toc[1]
            n == Len(build.ids)
        IN /\ n = 0 => tree = <<>>
           /\ (n <= 2 \/ 1 > build.max_depth) =>
                  /\ AllLeaves(tree)
                  /\ [k \in 1..Len(tree) |-> tree[k].id] = build.ids
           /\ \A h \in Headings(tree) :
                  (Len(LeafIds(h.children)) <= 2 \/ h.level + 1 > build.max_depth) =>
                      /\ AllLeaves(h.children)
                      /\ Len(h.children) = Len(LeafIds(h.children))

\* one heading's call stopped on its item count where the level allowed
\* another pass; its sibling's call, on three items, did not stop
C12_Witness ==
    /\ build.pc = "built"
    /\ \E h, g \in Headings(build.toc[1]) :
           /\ h.level = g.level
           /\ Len(h.children) <= 2
           /\ h.level + 1 <= build.max_depth
           /\ AllLeaves(h.children)
           /\ Len(LeafIds(g.children)) > 2
           /\ ~AllLeaves(g.children)

RECURSIVE AllNodes(_)
AllNodes(tree) ==
    IF tree = <<>> THEN {}
    ELSE LET node == Head(tree)
         IN {node} \cup (IF node.type = "heading" THEN AllNodes(node.children) ELSE {})
                   \cup AllNodes(Tail(tree))

\* C13: every node of a built tree carries an originality score between 0
\* and 1, and the one document of a one-document corpus scores 1.
C13_OriginalityRange ==
    build.pc = "built" =>
        /\ \A node \in AllNodes(build.toc[1]) :
               /\ "originality_score" \in DOMAIN node
               /\ 0 <= node.originality_score
               /\ node.originality_score <= ScoreUnit
        /\ Len(build.ids) = 1 =>
               /\ Len(build.toc[1]) = 1
               /\ build.toc[1][1].originality_score = ScoreUnit

\* the vector of a document of the corpus
EmbOf(id) == build.embeddings[Index(build.ids, id)]

\* the lists of leaves that one call of _calculate_originality_scores scored
ScoredSets ==
    (IF AllLeaves(build.toc[1]) THEN {build.toc[1]} ELSE {})
        \cup {h.children : h \in {g \in Headings(build.toc[1]) : AllLeaves(g.children)}}

\* the sum of the distances of leaf i of a scored list to its k nearest
\* neighbours in the list; k is the same for every leaf of the list
NearestSum(list, i) ==
    SmallestSum(distances([m \in 1..Len(list) |-> EmbOf(list[m].id)], i),
                Min2(5, Len(list) - 1))

\* a leaf whose mean distance to its neighbours is above 1 is held at 0,
\* beside a leaf that scores strictly between the ends
C13_Witness ==
    /\ build.pc = "built"
    /\ \E list \in ScoredSets :
           \E i, j \in 1..Len(list) :
               /\ NearestSum(list, i) > 25 * Min2(5, Len(list) - 1)
               /\ list[i].originality_score = 0
               /\ 0 < list[j].originality_score
               /\ list[j].originality_score < ScoreUnit

\* C14: within one scored set, a document with the larger mean distance to
\* its nearest neighbours never has the lower score.
C14_HigherIsMoreDistinct ==
    build.pc = "built" =>
        \A list \in ScoredSets :
            \A i, j \in 1..Len(list) :
                NearestSum(list, i) > NearestSum(list, j) =>
                    list[i].originality_score >= list[j].originality_score

\* C15: the score of every leaf is the one computed from its distances to
\* all the other documents of the corpus.
C15_LeafCorpusRelative ==
    build.pc = "built" =>
        \A node \in AllNodes(build.toc[1]) :
            node.type = "idea" =>
                node.originality_score =
                    _calculate_originality_scores(build.embeddings)[Index(build.ids, node.id)]

\* C16: the score of every heading is the one of its mean vector against
\* the corpus without the heading's members.
C16_HeadingAgainstCorpus ==
    build.pc = "built" =>
        \A h \in Headings(build.toc[1]) :
            h.originality_score =
                _calculate_heading_originality_score(h.children, build.embeddings, build.ids)

\* C17: no build is fed more than MaxItems documents, and no built tree
\* has more than MaxItems leaves.
C17_MaxItemsCeiling ==
    \A p \in Handlers :
        toc[p].structure # None =>
            /\ Len(toc[p].data[1].ids) <= MaxItems
            /\ Len(LeafIds(toc[p].structure[1])) <= MaxItems

\* C18: the tree a callback has built has the leaves of the data it read,
\* whatever has become of the collection since.
C18_SnapshotIsolation ==
    \A p \in Handlers :
        toc[p].structure # None =>
            /\ toc[p].data # None
            /\ SeqToSet(LeafIds(toc[p].structure[1])) = SeqToSet(toc[p].data[1].ids)
            /\ NoRepeat(LeafIds(toc[p].structure[1]))

\* the build has just ended on a snapshot the collection no longer matches
C18_Witness ==
    \E p \in Handlers :
        /\ toc[p].pc = "save"
        /\ toc[p].data[1].ids # <<>>
        /\ SeqToSet(LeafIds(toc[p].structure[1])) = SeqToSet(toc[p].data[1].ids)
        /\ get_all(collection).ids # toc[p].data[1].ids

\* C19: a callback with n_clicks = 0 that finds no cache file, or one that
\* does not parse, gets no value from load_toc_structure and goes on to
\* rebuild; it does not end with an exception and leaves the file alone.
C19_LoadNeverRaises ==
    [][\A p \in Handlers :
          (/\ toc[p].pc = "idle"
           /\ toc'[p].pc # "idle"
           /\ toc'[p].n_clicks = 0
           /\ load_toc_structure(cacheFile) = None) =>
              /\ toc'[p].pc = "generate"
              /\ toc'[p].cached_structure = None
              /\ cacheFile' = cacheFile]_vars

\* two overlapping saves have left a file that does not parse, and a first
\* view that came after them is rebuilding
C19_Witness ==
    \E p \in Handlers :
        /\ toc[p].pc = "generate"
        /\ toc[p].n_clicks = 0
        /\ lastDump # None
        /\ cacheFile.exists
        /\ cacheFile.cells # <<>>
        /\ load_toc_structure(cacheFile) = None

\* C20: a call whose embedding write failed does not return normally.
C20_StoreFailureSurfaced ==
    (call.pc \in {"returned", "raised"} /\ call.fn \in {"add_data", "update_data"}
        /\ call.future = "raised") => call.pc = "raised"

\* C21: generate_synthetic_title always returns to its caller, with a
\* non-empty string: the fixed placeholder for an empty cluster, and, when
\* keyword extraction raises, the fallback made of the title-cased first 20
\* characters of the first document.
C21_TitleNeverFails ==
    title.pc \notin {"off", "input"} =>
        /\ title.pc = "returned"
        /\ title.result # None
        /\ title.result[1] # <<>>
        /\ title.cluster_docs = <<>> => title.result[1] = UntitledSection
        /\ (title.extraction # None /\ title.extraction[1].raised) =>
               /\ StartsWith(title.result[1], SectionPrefix)
               /\ Len(title.result[1]) <= Len(SectionPrefix) + TitlePrefixLen
               /\ str_lower(Drop(title.result[1], Len(SectionPrefix)))
                      = str_lower(SubSeq(title.cluster_docs[1], 1,
                                         Len(title.result[1]) - Len(SectionPrefix)))
               /\ Len(title.cluster_docs[1]) <= TitlePrefixLen =>
                      Len(title.result[1]) = Len(SectionPrefix) + Len(title.cluster_docs[1])

\* extraction raised on a cluster whose first document is longer than the
\* prefix the fallback keeps
C21_Witness ==
    /\ title.pc = "returned"
    /\ title.extraction # None
    /\ title.extraction[1].raised
    /\ Len(title.cluster_docs[1]) > TitlePrefixLen
    /\ Len(title.result[1]) = Len(SectionPrefix) + TitlePrefixLen

\* the words of a title, the joining "&" left out
TitleWords(s) == SelectSeq(str_split(s), LAMBDA w : w # <<"&">>)

\* C22: no two terms selected into a title share a whole word, and the
\* final title does not repeat a word.
C22_NoSharedWord ==
    (title.pc = "returned" /\ title.extraction # None /\ ~title.extraction[1].raised) =>
        LET parts == title.extraction[1].keywords
        IN /\ \A i, j \in 1..Len(parts) :
                  i # j => SeqToSet(str_split(parts[i])) \cap SeqToSet(str_split(parts[j])) = {}
           /\ NoRepeat(TitleWords(title.result[1]))

RECURSIVE StrRemoveFirst(_, _)
\* s with its first occurrence of old taken out
StrRemoveFirst(s, old) ==
    IF Len(s) < Len(old) THEN s
    ELSE IF StartsWith(s, old) THEN Drop(s, Len(old))
    ELSE <<Head(s)>> \o StrRemoveFirst(Tail(s), old)

\* C23: when the description contains the prefix pattern of the name,
\* decoding the encoded text removes the first occurrence of the pattern,
\* the one encoding wrote, and leaves the later ones in place.
C23_FirstOccurrenceOnly ==
    (codec.pc = "decoded" /\ Contains(codec.description, prefix_pattern(codec.name))) =>
        /\ codec.decoded = Some(StrRemoveFirst(codec.encoded[1], prefix_pattern(codec.name)))
        /\ Contains(codec.decoded[1], prefix_pattern(codec.name))

RECURSIVE ShowsOriginality(_)
\* a rendered heading or leaf, and every one below it, displays a value
\* other than the 'N/A' default
ShowsOriginality(item) ==
    /\ item.originality # None
    /\ item.tag # "Li" =>
           \A k \in 1..Len(item.items) : ShowsOriginality(item.items[k])

\* C24: whenever update_toc renders a tree, built in the call or loaded
\* from the cache, every heading and leaf is displayed with the originality
\* value the builder gave it.
C24_RendererFindsOriginality ==
    \A p \in Handlers :
        (toc[p].rendered # None /\ "body" \in DOMAIN toc[p].rendered[1]) =>
            \A i \in 1..Len(toc[p].rendered[1].body) :
                ShowsOriginality(toc[p].rendered[1].body[i])

\* C25: every heading of a built tree has at least one child, for every
\* corpus and every max_depth.
C25_HeadingHasChildren ==
    build.pc = "built" =>
        \A h \in Headings(build.toc[1]) : h.children # <<>>

\* headings at two levels, one of them over a single leaf
C25_Witness ==
    /\ build.pc = "built"
    /\ \E h, g \in Headings(build.toc[1]) :
           /\ h.level = 1
           /\ g.level = 2
           /\ Len(g.children) = 1
           /\ g.children[1].type = "idea"

\* C26: a save supersedes the cached tree wholesale: what
\* load_toc_structure returns changes only in the step that completes a
\* save, so a save that fails after it opened the file leaves the tree saved
\* before it to be loaded.
C26_SaveAllOrNothing ==
    [][load_toc_structure(cacheFile') # load_toc_structure(cacheFile) =>
           \E p \in Handlers : toc[p].pc = "dump" /\ toc'[p].dump = "closed"]_vars

\* C27: no step of add_data, update_data or remove_data changes the cache
\* file, which only a save of update_toc writes; a first view returns
\* the tree the last save left, whatever the stores hold by then.
C27_MutationsLeaveCache ==
    [][/\ (call' # call \/ sqlData' # sqlData \/ collection' # collection) =>
              cacheFile' = cacheFile
       /\ cacheFile' # cacheFile => \E p \in Handlers : toc[p].pc \in {"save", "dump"}
       /\ \A p \in Handlers :
              (toc[p].pc = "idle" /\ toc'[p].pc # "idle" /\ toc'[p].n_clicks = 0 /\ lastDump # None) =>
                  /\ toc'[p].pc = "returned"
                  /\ toc'[p].cached_structure = Some(lastDump[1].structure)
                  /\ toc'[p].rendered = Some(render_toc_from_structure(lastDump[1].structure))
      ]_vars

\* a first view has returned a cached tree with a leaf whose id is in
\* neither store any more, after a remove_data that has returned
C27_Witness ==
    \E p \in Handlers :
        /\ toc[p].pc = "returned"
        /\ toc[p].n_clicks = 0
        /\ toc[p].cached_structure # None
        /\ call.pc = "returned"
        /\ call.fn = "remove_data"
        /\ \E id \in SeqToSet(LeafIds(toc[p].cached_structure[1])) :
               /\ id = call.name
               /\ sqlData[id] = None
               /\ ~HasId(collection, id)

\* C28: when no embedding-store call fails or times out, between calls
\* of add_data, update_data and remove_data the ids of the embedding store
\* are exactly the names of the data table.
C28_StoresAgree ==
    call.pc \in {"idle", "returned"} =>
        {collection[i].id : i \in 1..Len(collection)}
            = {name \in DataNames : sqlData[name] # None}

\* an update of a name that no store holds has returned beside a stored name
C28_Witness ==
    /\ call.pc = "returned"
    /\ call.fn = "update_data"
    /\ ~call.existed
    /\ call.printed = "success"
    /\ sqlData[call.name] = None
    /\ \E name \in DataNames : sqlData[name] # None /\ HasId(collection, name)

\* C29: every row of the relation table names a data item of the data
\* table and a tag of the tags table.
C29_ReferentialIntegrity ==
    \A r \in relation : sqlData[r[1]] # None /\ r[2] \in tags

\* C30: after callback_relation has run for the 'button-remove-relation'
\* button with a data name and a tag name, the relation of the two is not in
\* the relation table and the tag is not in the tag list returned.
C30_RemoveButtonRemoves ==
    (/\ ui.pc = "returned"
     /\ ui.triggered_id = "button-remove-relation"
     /\ ui.data_name # <<>>
     /\ ui.tag_name # None) =>
        /\ <<ui.data_name, ui.tag_name[1]>> \notin relation
        /\ ui.tag_name[1] \notin ui.taglist[1]
====
